---- MODULE Spec2Model ----
(***************************************************************************)
(* A model of TzeBuilder, the two-phase builder of TZE bundles in          *)
(* zcash_primitives/src/transaction/components/tze/builder.rs.             *)
(*                                                                         *)
(* Phase one (pc = "building") accumulates inputs, signers and outputs;    *)
(* phase two (create_witnesses) consumes the builder and resolves the      *)
(* signers one by one, in the order of the zipped iterator.                *)
(***************************************************************************)
EXTENDS Integers, Sequences, FiniteSets, TLC

(***************************************************************************)
(* Bounds of the model.                                                    *)
(***************************************************************************)
\* The Amount range is -MaxMoney..MaxMoney (MAX_MONEY scaled down).
MaxMoney == 1
\* The number of add_input calls plus accepted add_output calls.
MaxCalls == 3

(***************************************************************************)
(* Option and Result values.                                               *)
(***************************************************************************)
None == << >>

Some(x) == << x >>

Ok(v) == << "Ok", v >>

Err(e) == << "Err", e >>

IsOk(r) == r[1] = "Ok"

IsErr(r) == r[1] = "Err"

Unit == << >>

(***************************************************************************)
(* enum Error                                                              *)
(***************************************************************************)
InvalidAmount == [kind |-> "InvalidAmount", expected |-> 0, actual |-> 0]

WitnessModeMismatch(expected, actual) ==
    [kind |-> "WitnessModeMismatch", expected |-> expected, actual |-> actual]

(***************************************************************************)
(* Amount: a bounded signed integer with checked arithmetic.               *)
(***************************************************************************)
Amounts == (0 - MaxMoney)..MaxMoney

AmountFromI64(n) == IF n \in Amounts THEN Some(n) ELSE None

AmountAdd(a, b) == AmountFromI64(a + b)

AmountSub(a, b) == AmountFromI64(a - b)

IsNegative(a) == a < 0

\* Sum<Amount> for Option<Amount>: a left fold of checked additions from zero.
RECURSIVE SumFrom(_, _)
SumFrom(acc, vals) ==
    IF acc = None THEN None
    ELSE IF vals = << >> THEN acc
    ELSE SumFrom(AmountAdd(acc[1], Head(vals)), Tail(vals))

AmountSum(vals) == SumFrom(Some(0), vals)

(***************************************************************************)
(* The values the caller passes in.                                        *)
(***************************************************************************)
Modes == {0, 1}

ExtIds == {0, 1}

OutPoints == {0, 1}

Ctxs == {0, 1}

\* A value with a to_payload conversion (a guard of an output, or the witness
\* a witness builder returns): its mode and the bytes it commits to.
ToPayload(w) == << w.mode, w.bytes >>

Guards == {[mode |-> m, bytes |-> << 20 + m >>] : m \in Modes}

\* The errors a witness builder may return: any value of the Error type.
BuilderErrors == {InvalidAmount, WitnessModeMismatch(1, 0)}

\* A witness builder: a one-shot closure over `key`, which either returns a
\* witness of mode `mode` committing to the key and the context, or fails.
WBuilders ==
    {[res |-> "Ok", mode |-> m, key |-> 10 + m, err |-> InvalidAmount] : m \in Modes}
    \cup {[res |-> "Err", mode |-> 0, key |-> 0, err |-> e] : e \in BuilderErrors}

\* witness_builder(&ctx)
RunWitnessBuilder(wb, ctx) ==
    IF wb.res = "Ok"
    THEN Ok([mode |-> wb.mode, bytes |-> << wb.key, ctx >>])
    ELSE Err(wb.err)

\* The boxed closure replacing the error of the witness builder.
SignerBuilderMasked(wb, ctx) ==
    LET r == RunWitnessBuilder(wb, ctx)
    IN IF IsOk(r) THEN Ok(ToPayload(r[2])) ELSE Err(InvalidAmount)

\* The boxed closure of a signer: move |ctx| witness_builder(&ctx).map(|x| x.to_payload())
SignerBuilder(wb, ctx) ==
    LET r == RunWitnessBuilder(wb, ctx)
    IN IF IsOk(r) THEN Ok(ToPayload(r[2])) ELSE r

\* The precondition of the consumed previous outputs.
PrevPrecondition == [extension_id |-> 0, mode |-> 0, payload |-> << 30 >>]

TzeOutOf(value, extension_id, mode, payload) ==
    [value |-> value,
     precondition |-> [extension_id |-> extension_id, mode |-> mode, payload |-> payload]]

\* TzeIn::new(outpoint, extension_id, mode): an input without its payload.
TzeInNew(outpoint, extension_id, mode) ==
    [prevout |-> outpoint, witness |-> [extension_id |-> extension_id, mode |-> mode]]

\* The arguments of add_input calls: every declared mode with every witness
\* builder, and every Amount as the value of the consumed output.
InputArgs ==
    {[extension_id |-> 0, mode |-> m, outpoint |-> 0,
      prevout |-> [value |-> MaxMoney, precondition |-> PrevPrecondition],
      witness_builder |-> wb] : m \in Modes, wb \in WBuilders}
    \cup
    {[extension_id |-> 1, mode |-> 0, outpoint |-> 1,
      prevout |-> [value |-> v, precondition |-> PrevPrecondition],
      witness_builder |-> [res |-> "Ok", mode |-> 0, key |-> 10, err |-> InvalidAmount]]
        : v \in Amounts}

\* The arguments of add_output calls: every Amount, and every extension id
\* with every guard.
OutputArgs ==
    {[extension_id |-> 1, value |-> v, guarded_by |-> [mode |-> 0, bytes |-> << 20 >>]]
        : v \in Amounts}
    \cup
    {[extension_id |-> e, value |-> MaxMoney, guarded_by |-> g] : e \in ExtIds, g \in Guards}

(***************************************************************************)
(* State.                                                                  *)
(***************************************************************************)
VARIABLES
    signers,    \* TzeBuilder.signers
    vin,        \* TzeBuilder.vin
    vout,       \* TzeBuilder.vout
    pc,         \* "building": the builder exists; "resolving": create_witnesses
                \* is collecting; "done": create_witnesses has returned
    zip,        \* the zipped iterator of create_witnesses: what is left of it
    payloads,   \* the AuthData collected so far
    mtx,        \* the context create_witnesses was called with
    ret,        \* the last call, its argument and what it returned
    inCalls,    \* history: the arguments of the add_input calls, in call order
    outCalls,   \* history: the arguments of the accepted add_output calls
    invoked,    \* history: the witness builders invoked, in invocation order
    lastBuild   \* history: what build() returned since the builder last changed

builder == << signers, vin, vout >>

vars == << signers, vin, vout, pc, zip, payloads, mtx, ret, inCalls, outCalls, invoked,
          lastBuild >>

NoZip == [signers |-> << >>, vin |-> << >>]

\* TzeBuilder::empty()
Init ==
    /\ signers = << >>
    /\ vin = << >>
    /\ vout = << >>
    /\ pc = "building"
    /\ zip = NoZip
    /\ payloads = << >>
    /\ mtx = 0
    /\ ret = [op |-> "empty", arg |-> Unit, val |-> Unit]
    /\ inCalls = << >>
    /\ outCalls = << >>
    /\ invoked = << >>
    /\ lastBuild = None

\* The builder is owned by the caller: it has not been moved into create_witnesses.
Owned == pc = "building"

Room == Len(inCalls) + Len(outCalls) < MaxCalls

\* add_input putting the new input in front of the others.
AddInputFront(a) ==
    /\ Owned
    /\ Room
    /\ vin' = << TzeInNew(a.outpoint, a.extension_id, a.mode) >> \o vin
    /\ signers' = Append(signers, [prevout |-> a.prevout, builder |-> a.witness_builder])
    /\ ret' = [op |-> "add_input", arg |-> a, val |-> Unit]
    /\ inCalls' = Append(inCalls, a)
    /\ lastBuild' = None
    /\ UNCHANGED << vout, pc, zip, payloads, mtx, outCalls, invoked >>

\* add_input putting the new signer in front of the others.
AddInputSignerFront(a) ==
    /\ Owned
    /\ Room
    /\ vin' = Append(vin, TzeInNew(a.outpoint, a.extension_id, a.mode))
    /\ signers' = << [prevout |-> a.prevout, builder |-> a.witness_builder] >> \o signers
    /\ ret' = [op |-> "add_input", arg |-> a, val |-> Unit]
    /\ inCalls' = Append(inCalls, a)
    /\ lastBuild' = None
    /\ UNCHANGED << vout, pc, zip, payloads, mtx, outCalls, invoked >>

\* add_input running the witness builder at once and dropping an input whose
\* builder fails or reports another mode.
AddInputValidating(a) ==
    /\ Owned
    /\ Room
    /\ LET r == RunWitnessBuilder(a.witness_builder, mtx)
       IN /\ invoked' = Append(invoked, a.witness_builder)
          /\ IF IsOk(r) /\ r[2].mode = a.mode
             THEN /\ vin' = Append(vin, TzeInNew(a.outpoint, a.extension_id, a.mode))
                  /\ signers' = Append(signers, [prevout |-> a.prevout,
                                                 builder |-> a.witness_builder])
                  /\ inCalls' = Append(inCalls, a)
                  /\ lastBuild' = None
             ELSE UNCHANGED << vin, signers, inCalls, lastBuild >>
    /\ ret' = [op |-> "add_input", arg |-> a, val |-> Unit]
    /\ UNCHANGED << vout, pc, zip, payloads, mtx, outCalls >>

\* add_input placing the new input and signer at the index given by the
\* number of outputs.
AddInputAtOutputCount(a) ==
    /\ Owned
    /\ Room
    /\ LET k == IF Len(vout) < Len(vin) THEN Len(vout) ELSE Len(vin)
       IN /\ vin' = SubSeq(vin, 1, k)
                      \o << TzeInNew(a.outpoint, a.extension_id, a.mode) >>
                      \o SubSeq(vin, k + 1, Len(vin))
          /\ signers' = SubSeq(signers, 1, k)
                      \o << [prevout |-> a.prevout, builder |-> a.witness_builder] >>
                      \o SubSeq(signers, k + 1, Len(signers))
    /\ ret' = [op |-> "add_input", arg |-> a, val |-> Unit]
    /\ inCalls' = Append(inCalls, a)
    /\ lastBuild' = None
    /\ UNCHANGED << vout, pc, zip, payloads, mtx, outCalls, invoked >>

\* TzeBuilder::add_input
AddInput(a) ==
    /\ Owned
    /\ Room
    /\ vin' = Append(vin, TzeInNew(a.outpoint, a.extension_id, a.mode))
    /\ signers' = Append(signers, [prevout |-> a.prevout, builder |-> a.witness_builder])
    /\ ret' = [op |-> "add_input", arg |-> a, val |-> Unit]
    /\ inCalls' = Append(inCalls, a)
    /\ lastBuild' = None
    /\ UNCHANGED << vout, pc, zip, payloads, mtx, outCalls, invoked >>

\* add_output pushing the output before it looks at the sign of the value.
AddOutputPushFirst(a) ==
    /\ Owned
    /\ Room
    /\ LET p == ToPayload(a.guarded_by)
       IN vout' = Append(vout, TzeOutOf(a.value, a.extension_id, p[1], p[2]))
    /\ outCalls' = Append(outCalls, a)
    /\ lastBuild' = None
    /\ ret' = [op |-> "add_output", arg |-> a,
               val |-> IF IsNegative(a.value) THEN Err(InvalidAmount) ELSE Ok(Unit)]
    /\ UNCHANGED << signers, vin, pc, zip, payloads, mtx, inCalls, invoked >>

\* add_output without the test of the sign of the value.
AddOutputNoCheck(a) ==
    /\ Owned
    /\ Room
    /\ LET p == ToPayload(a.guarded_by)
       IN vout' = Append(vout, TzeOutOf(a.value, a.extension_id, p[1], p[2]))
    /\ ret' = [op |-> "add_output", arg |-> a, val |-> Ok(Unit)]
    /\ outCalls' = Append(outCalls, a)
    /\ lastBuild' = None
    /\ UNCHANGED << signers, vin, pc, zip, payloads, mtx, inCalls, invoked >>

\* TzeBuilder::add_output
AddOutput(a) ==
    /\ Owned
    /\ IF IsNegative(a.value)
       THEN /\ ret' = [op |-> "add_output", arg |-> a, val |-> Err(InvalidAmount)]
            /\ UNCHANGED << vout, outCalls, lastBuild >>
       ELSE /\ Room
            /\ LET p == ToPayload(a.guarded_by)
               IN vout' = Append(vout, TzeOutOf(a.value, a.extension_id, p[1], p[2]))
            /\ ret' = [op |-> "add_output", arg |-> a, val |-> Ok(Unit)]
            /\ outCalls' = Append(outCalls, a)
            /\ lastBuild' = None
    /\ UNCHANGED << signers, vin, pc, zip, payloads, mtx, inCalls, invoked >>

\* signers.iter().map(|s| s.prevout.value)
PrevoutValues(sgn) == [i \in 1..Len(sgn) |-> sgn[i].prevout.value]

\* vout.iter().map(|tzo| tzo.value)
TzeOutValues(outs) == [i \in 1..Len(outs) |-> outs[i].value]

\* value_balance subtracting the consumed values from the outputs.
ValueBalanceSwapped(sgn, outs) ==
    LET ins == AmountSum(PrevoutValues(sgn))
    IN IF ins = None THEN None
       ELSE LET spent == AmountSum(TzeOutValues(outs))
            IN IF spent = None THEN None
               ELSE AmountSub(spent[1], ins[1])

\* value_balance with no sum for an empty sequence of signers.
ValueBalanceNoneWhenEmpty(sgn, outs) ==
    LET ins == IF sgn = << >> THEN None ELSE AmountSum(PrevoutValues(sgn))
    IN IF ins = None THEN None
       ELSE LET spent == AmountSum(TzeOutValues(outs))
            IN IF spent = None THEN None
               ELSE AmountSub(ins[1], spent[1])

\* The body of value_balance: sum()? - sum()?
ValueBalanceOf(sgn, outs) ==
    LET ins == AmountSum(PrevoutValues(sgn))
    IN IF ins = None THEN None
       ELSE LET spent == AmountSum(TzeOutValues(outs))
            IN IF spent = None THEN None
               ELSE AmountSub(ins[1], spent[1])

\* TzeBuilder::value_balance
ValueBalance ==
    /\ Owned
    /\ ret' = [op |-> "value_balance", arg |-> Unit, val |-> ValueBalanceOf(signers, vout)]
    /\ UNCHANGED << signers, vin, vout, pc, zip, payloads, mtx, inCalls, outCalls, invoked,
                    lastBuild >>

\* The body of build
BuildOf(ins, outs) ==
    IF ins = << >> /\ outs = << >>
    THEN None
    ELSE Some([vin |-> ins, vout |-> outs])

\* build taking the inputs out of the builder instead of cloning them.
BuildTaking ==
    /\ Owned
    /\ ret' = [op |-> "build", arg |-> Unit, val |-> BuildOf(vin, vout)]
    /\ lastBuild' = Some(ret'.val)
    /\ vin' = << >>
    /\ UNCHANGED << signers, vout, pc, zip, payloads, mtx, inCalls, outCalls, invoked >>

\* TzeBuilder::build
Build ==
    /\ Owned
    /\ ret' = [op |-> "build", arg |-> Unit, val |-> BuildOf(vin, vout)]
    /\ lastBuild' = Some(ret'.val)
    /\ UNCHANGED << signers, vin, vout, pc, zip, payloads, mtx, inCalls, outCalls, invoked >>

\* create_witnesses without the test for the empty builder.
CreateWitnessesNoEmptyTest(ctx) ==
    /\ Owned
    /\ mtx' = ctx
    /\ signers' = << >>
    /\ vin' = << >>
    /\ vout' = << >>
    /\ pc' = "resolving"
    /\ ret' = [op |-> "create_witnesses", arg |-> ctx, val |-> Unit]
    /\ zip' = [signers |-> signers, vin |-> vin]
    /\ lastBuild' = None
    /\ UNCHANGED << payloads, inCalls, outCalls, invoked >>

\* create_witnesses walking the signers and the inputs from the last to the first.
CreateWitnessesReversed(ctx) ==
    /\ Owned
    /\ mtx' = ctx
    /\ signers' = << >>
    /\ vin' = << >>
    /\ vout' = << >>
    /\ IF vin = << >> /\ vout = << >>
       THEN /\ pc' = "done"
            /\ ret' = [op |-> "create_witnesses", arg |-> ctx, val |-> Ok(None)]
            /\ zip' = NoZip
       ELSE /\ pc' = "resolving"
            /\ ret' = [op |-> "create_witnesses", arg |-> ctx, val |-> Unit]
            /\ zip' = [signers |-> [i \in 1..Len(signers) |-> signers[Len(signers) + 1 - i]],
                       vin |-> [i \in 1..Len(vin) |-> vin[Len(vin) + 1 - i]]]
    /\ lastBuild' = None
    /\ UNCHANGED << payloads, inCalls, outCalls, invoked >>

\* create_witnesses refusing a builder whose value balance is not zero.
CreateWitnessesBalanced(ctx) ==
    /\ Owned
    /\ mtx' = ctx
    /\ signers' = << >>
    /\ vin' = << >>
    /\ vout' = << >>
    /\ IF vin = << >> /\ vout = << >>
       THEN /\ pc' = "done"
            /\ ret' = [op |-> "create_witnesses", arg |-> ctx, val |-> Ok(None)]
            /\ zip' = NoZip
       ELSE IF ValueBalanceOf(signers, vout) # Some(0)
       THEN /\ pc' = "done"
            /\ ret' = [op |-> "create_witnesses", arg |-> ctx, val |-> Err(InvalidAmount)]
            /\ zip' = NoZip
       ELSE /\ pc' = "resolving"
            /\ ret' = [op |-> "create_witnesses", arg |-> ctx, val |-> Unit]
            /\ zip' = [signers |-> signers, vin |-> vin]
    /\ lastBuild' = None
    /\ UNCHANGED << payloads, inCalls, outCalls, invoked >>

\* TzeBuilder::create_witnesses, up to the construction of the lazy iterator:
\* the builder is moved in, and taken apart when it is not empty.
CreateWitnesses(ctx) ==
    /\ Owned
    /\ mtx' = ctx
    /\ signers' = << >>
    /\ vin' = << >>
    /\ vout' = << >>
    /\ IF vin = << >> /\ vout = << >>
       THEN /\ pc' = "done"
            /\ ret' = [op |-> "create_witnesses", arg |-> ctx, val |-> Ok(None)]
            /\ zip' = NoZip
       ELSE /\ pc' = "resolving"
            /\ ret' = [op |-> "create_witnesses", arg |-> ctx, val |-> Unit]
            /\ zip' = [signers |-> signers, vin |-> vin]
    /\ lastBuild' = None
    /\ UNCHANGED << payloads, inCalls, outCalls, invoked >>

\* tze::AuthData: the payload of a resolved witness.
AuthData(payload) == [payload |-> payload]

\* Zip::next yields a pair while both sides have an element.
ZipHasNext == zip.signers # << >> /\ zip.vin # << >>

\* The closure with the two modes of the mismatch in the other order.
ResolveSignerSwapped(signer, tzein, ctx) ==
    LET r == SignerBuilder(signer.builder, ctx)
    IN IF IsErr(r) THEN r
       ELSE LET mode == r[2][1]
                payload == r[2][2]
                input_mode == tzein.witness.mode
            IN IF mode # input_mode
               THEN Err(WitnessModeMismatch(mode, input_mode))
               ELSE Ok(AuthData(payload))

\* The closure mapped over the zipped pairs.
ResolveSigner(signer, tzein, ctx) ==
    LET r == SignerBuilder(signer.builder, ctx)
    IN IF IsErr(r) THEN r
       ELSE LET mode == r[2][1]
                payload == r[2][2]
                input_mode == tzein.witness.mode
            IN IF mode # input_mode
               THEN Err(WitnessModeMismatch(input_mode, mode))
               ELSE Ok(AuthData(payload))

\* The collection putting each new AuthData in front of the others.
ResolveNextFront ==
    /\ pc = "resolving"
    /\ ZipHasNext
    /\ LET r == ResolveSigner(Head(zip.signers), Head(zip.vin), mtx)
       IN /\ invoked' = Append(invoked, Head(zip.signers).builder)
          /\ IF IsErr(r)
             THEN /\ pc' = "done"
                  /\ ret' = [op |-> "create_witnesses", arg |-> mtx, val |-> r]
                  /\ zip' = NoZip
                  /\ payloads' = << >>
             ELSE /\ payloads' = << r[2] >> \o payloads
                  /\ zip' = [signers |-> Tail(zip.signers), vin |-> Tail(zip.vin)]
                  /\ UNCHANGED << pc, ret >>
    /\ UNCHANGED << signers, vin, vout, mtx, inCalls, outCalls, lastBuild >>

\* The collection ending at the first error with what it has collected.
ResolveNextPartial ==
    /\ pc = "resolving"
    /\ ZipHasNext
    /\ LET r == ResolveSigner(Head(zip.signers), Head(zip.vin), mtx)
       IN /\ invoked' = Append(invoked, Head(zip.signers).builder)
          /\ IF IsErr(r)
             THEN /\ pc' = "done"
                  /\ ret' = [op |-> "create_witnesses", arg |-> mtx,
                             val |-> Ok(Some(payloads))]
                  /\ zip' = NoZip
                  /\ UNCHANGED payloads
             ELSE /\ payloads' = Append(payloads, r[2])
                  /\ zip' = [signers |-> Tail(zip.signers), vin |-> Tail(zip.vin)]
                  /\ UNCHANGED << pc, ret >>
    /\ UNCHANGED << signers, vin, vout, mtx, inCalls, outCalls, lastBuild >>

\* The collection leaving the resolved pair in the iterator.
ResolveNextAgain ==
    /\ pc = "resolving"
    /\ ZipHasNext
    /\ LET r == ResolveSigner(Head(zip.signers), Head(zip.vin), mtx)
       IN /\ invoked' = Append(invoked, Head(zip.signers).builder)
          /\ IF IsErr(r)
             THEN /\ pc' = "done"
                  /\ ret' = [op |-> "create_witnesses", arg |-> mtx, val |-> r]
                  /\ zip' = NoZip
                  /\ payloads' = << >>
             ELSE /\ payloads' = Append(payloads, r[2])
                  /\ UNCHANGED << zip, pc, ret >>
    /\ UNCHANGED << signers, vin, vout, mtx, inCalls, outCalls, lastBuild >>

\* One step of collect::<Result<Vec<_>, Error>>(): the next pair is resolved;
\* the first Err ends the collection and is returned by `?`.
ResolveNext ==
    /\ pc = "resolving"
    /\ ZipHasNext
    /\ LET r == ResolveSigner(Head(zip.signers), Head(zip.vin), mtx)
       IN /\ invoked' = Append(invoked, Head(zip.signers).builder)
          /\ IF IsErr(r)
             THEN /\ pc' = "done"
                  /\ ret' = [op |-> "create_witnesses", arg |-> mtx, val |-> r]
                  /\ zip' = NoZip
                  /\ payloads' = << >>
             ELSE /\ payloads' = Append(payloads, r[2])
                  /\ zip' = [signers |-> Tail(zip.signers), vin |-> Tail(zip.vin)]
                  /\ UNCHANGED << pc, ret >>
    /\ UNCHANGED << signers, vin, vout, mtx, inCalls, outCalls, lastBuild >>

\* The end of the collection returning None for an empty sequence.
CollectedNoneWhenEmpty ==
    /\ pc = "resolving"
    /\ ~ZipHasNext
    /\ pc' = "done"
    /\ ret' = [op |-> "create_witnesses", arg |-> mtx,
               val |-> Ok(IF payloads = << >> THEN None ELSE Some(payloads))]
    /\ zip' = NoZip
    /\ UNCHANGED << signers, vin, vout, payloads, mtx, inCalls, outCalls, invoked,
                    lastBuild >>

\* The iterator is exhausted: Ok(Some(payloads)).
Collected ==
    /\ pc = "resolving"
    /\ ~ZipHasNext
    /\ pc' = "done"
    /\ ret' = [op |-> "create_witnesses", arg |-> mtx, val |-> Ok(Some(payloads))]
    /\ zip' = NoZip
    /\ UNCHANGED << signers, vin, vout, payloads, mtx, inCalls, outCalls, invoked,
                    lastBuild >>

Next ==
    \/ \E a \in InputArgs : AddInput(a)
    \/ \E a \in OutputArgs : AddOutput(a)
    \/ ValueBalance
    \/ Build
    \/ \E ctx \in Ctxs : CreateWitnesses(ctx)
    \/ ResolveNext
    \/ Collected

Spec == Init /\ [][Next]_vars

(***************************************************************************)
(* Properties.                                                             *)
(***************************************************************************)
Returned(op) == ret.op = op /\ (op = "create_witnesses" => pc = "done")

\* The sum of a sequence of integers, unbounded.
RECURSIVE IntSum(_)
IntSum(vals) == IF vals = << >> THEN 0 ELSE Head(vals) + IntSum(Tail(vals))

\* The values of the consumed previous outputs passed to add_input.
ConsumedValues == [i \in 1..Len(inCalls) |-> inCalls[i].prevout.value]

\* The values of the outputs add_output accepted.
OutputValues == [j \in 1..Len(outCalls) |-> outCalls[j].value]

\* What the deferred computation of an add_input call does under ctx: the
\* error it returns, the mode it resolves to, the payload it produces.
Resolution(a, ctx) == RunWitnessBuilder(a.witness_builder, ctx)

Fails(a, ctx) == IsErr(Resolution(a, ctx))

Mismatches(a, ctx) == IsOk(Resolution(a, ctx)) /\ Resolution(a, ctx)[2].mode # a.mode

\* C1: build() returns absent iff no add_input call and no accepted add_output
\* call was made; otherwise the Bundle's inputs are the (outpoint, extension
\* id, mode) of the add_input calls in call order, and its outputs the (value,
\* extension id, mode, payload) of the accepted add_output calls in call order.
C1_BuildMatchesCalls ==
    Returned("build") =>
        /\ (ret.val = None) <=> (inCalls = << >> /\ outCalls = << >>)
        /\ ret.val # None =>
            LET b == ret.val[1]
            IN /\ Len(b.vin) = Len(inCalls)
               /\ \A i \in 1..Len(inCalls) :
                    /\ b.vin[i].prevout = inCalls[i].outpoint
                    /\ b.vin[i].witness.extension_id = inCalls[i].extension_id
                    /\ b.vin[i].witness.mode = inCalls[i].mode
               /\ Len(b.vout) = Len(outCalls)
               /\ \A j \in 1..Len(outCalls) :
                    /\ b.vout[j].value = outCalls[j].value
                    /\ b.vout[j].precondition.extension_id = outCalls[j].extension_id
                    /\ b.vout[j].precondition.mode = outCalls[j].guarded_by.mode
                    /\ b.vout[j].precondition.payload = outCalls[j].guarded_by.bytes

C1_Witness ==
    /\ Returned("build")
    /\ ret.val # None
    /\ Len(inCalls) = 2
    /\ inCalls[1].outpoint # inCalls[2].outpoint
    /\ inCalls[1].mode # inCalls[2].mode
    /\ Len(outCalls) = 1

\* C2: when the k-th input's deferred computation is invoked and resolves to a
\* mode other than the declared one, create_witnesses has failed with
\* WitnessModeMismatch(declared, resolved) and nothing after k was invoked.
C2_MismatchFails ==
    \A n \in 1..Len(invoked) :
        /\ invoked[n] = inCalls[n].witness_builder
        /\ Mismatches(inCalls[n], mtx) =>
            /\ Returned("create_witnesses")
            /\ ret.val = Err(WitnessModeMismatch(inCalls[n].mode,
                                                  Resolution(inCalls[n], mtx)[2].mode))
            /\ Len(invoked) = n

C2_Witness ==
    /\ Returned("create_witnesses")
    /\ Len(invoked) = 2
    /\ Len(inCalls) = 3
    /\ Mismatches(inCalls[2], mtx)
    /\ ret.val = Err(WitnessModeMismatch(1, 0))
    /\ invoked[2].res = "Ok"

\* C3: when every deferred computation resolves to the declared mode,
\* create_witnesses on a non-empty builder returns a present sequence with
\* one AuthData per input, the i-th holding the payload of the i-th added
\* input's computation, whatever the number of outputs.
C3_AllResolved ==
    (/\ Returned("create_witnesses")
     /\ inCalls # << >> \/ outCalls # << >>
     /\ \A i \in 1..Len(inCalls) : ~Fails(inCalls[i], mtx) /\ ~Mismatches(inCalls[i], mtx))
    => /\ IsOk(ret.val)
       /\ ret.val[2] # None
       /\ Len(ret.val[2][1]) = Len(inCalls)
       /\ \A i \in 1..Len(inCalls) :
            ret.val[2][1][i] = AuthData(Resolution(inCalls[i], mtx)[2].bytes)

C3_Witness ==
    /\ Returned("create_witnesses")
    /\ IsOk(ret.val)
    /\ Len(inCalls) = 2
    /\ outCalls = << >>
    /\ inCalls[1].mode # inCalls[2].mode
    /\ ret.val[2][1][1] # ret.val[2][1][2]

\* Every partial sum of vals, taken from the left, is an Amount.
RunningSumsFit(vals) == \A n \in 0..Len(vals) : IntSum(SubSeq(vals, 1, n)) \in Amounts

BalanceDefined ==
    /\ RunningSumsFit(ConsumedValues)
    /\ RunningSumsFit(OutputValues)
    /\ IntSum(ConsumedValues) - IntSum(OutputValues) \in Amounts

\* C4 (as amended): value_balance() is the sum of the consumed values minus
\* the sum of the output values when every running sum of the consumed
\* values in add order, every running sum of the output values and the
\* difference are Amounts; it is absent otherwise.
C4_BalanceOfRunningSums ==
    Returned("value_balance") =>
        ret.val = IF BalanceDefined
                  THEN Some(IntSum(ConsumedValues) - IntSum(OutputValues))
                  ELSE None

C4_Witness ==
    /\ Returned("value_balance")
    /\ Len(inCalls) = 3
    /\ IntSum(ConsumedValues) \in Amounts
    /\ ~RunningSumsFit(ConsumedValues)
    /\ ret.val = None

\* C4 (as claimed): value_balance() is the difference of the two sums when
\* both sums and the difference are Amounts, and absent otherwise, for
\* consumed values of any sign in any order.
C4_BalanceOfSums ==
    Returned("value_balance") =>
        ret.val = IF /\ IntSum(ConsumedValues) \in Amounts
                     /\ IntSum(OutputValues) \in Amounts
                     /\ IntSum(ConsumedValues) - IntSum(OutputValues) \in Amounts
                  THEN Some(IntSum(ConsumedValues) - IntSum(OutputValues))
                  ELSE None

\* C5: add_output with a negative value returns InvalidAmount and changes
\* nothing of the builder, so every later call sees the state it would have
\* seen without the rejected call.
C5_RejectedOutput ==
    [][(ret'.op = "add_output" /\ IsNegative(ret'.arg.value)) =>
        /\ ret'.val = Err(InvalidAmount)
        /\ UNCHANGED << signers, vin, vout, pc, zip, payloads, mtx, inCalls, outCalls,
                        invoked, lastBuild >>]_vars

C5_Witness ==
    /\ Returned("add_output")
    /\ ret.val = Err(InvalidAmount)
    /\ IsNegative(ret.arg.value)
    /\ pc = "building"
    /\ Len(vin) = 1
    /\ Len(vout) = 1

\* The first add_input call whose computation fails or resolves to another
\* mode than declared; 0 when there is none.
FirstBad(ctx) ==
    LET bad == {i \in 1..Len(inCalls) : Fails(inCalls[i], ctx) \/ Mismatches(inCalls[i], ctx)}
    IN IF bad = {} THEN 0 ELSE CHOOSE i \in bad : \A j \in bad : i <= j

\* C6: when a deferred computation fails, create_witnesses fails with that
\* very error and no later computation is invoked; the failure reported is
\* that of the first input, in add order, that fails or mismatches.
C6_ErrorPropagates ==
    (Returned("create_witnesses") /\ FirstBad(mtx) # 0) =>
        LET k == FirstBad(mtx)
        IN /\ Len(invoked) = k
           /\ Fails(inCalls[k], mtx) => ret.val = Resolution(inCalls[k], mtx)
           /\ Mismatches(inCalls[k], mtx) =>
                ret.val = Err(WitnessModeMismatch(inCalls[k].mode,
                                                  Resolution(inCalls[k], mtx)[2].mode))

C6_Witness ==
    /\ Returned("create_witnesses")
    /\ Len(inCalls) = 3
    /\ FirstBad(mtx) = 2
    /\ Fails(inCalls[2], mtx)
    /\ Mismatches(inCalls[3], mtx)
    /\ ret.val = Err(WitnessModeMismatch(1, 0))

\* C7: create_witnesses returns Ok(None) exactly on a builder with no inputs
\* and no outputs, which are exactly the states where build() returns absent.
C7_EmptyIsAbsent ==
    /\ [](Returned("create_witnesses") =>
            ((ret.val = Ok(None)) <=> (inCalls = << >> /\ outCalls = << >>)))
    /\ [][(pc = "building" /\ pc' # "building") =>
            ((pc' = "done" /\ ret'.val = Ok(None)) <=> (BuildOf(vin, vout) = None))]_vars

C7_Witness ==
    /\ Returned("create_witnesses")
    /\ ret.val = Ok(None)
    /\ inCalls = << >>
    /\ outCalls = << >>

\* C8: build() and value_balance() change nothing of the builder and invoke
\* no deferred computation, and build() returns what the previous build()
\* returned when the builder was not changed in between.
C8_QueriesReadOnly ==
    [][(ret'.op \in {"build", "value_balance"}) =>
        /\ UNCHANGED << signers, vin, vout, pc, zip, payloads, mtx, inCalls, outCalls,
                        invoked >>
        /\ (ret'.op = "build" /\ lastBuild # None) => ret'.val = lastBuild[1]]_vars

C8_Witness ==
    /\ Returned("build")
    /\ lastBuild # None
    /\ ret.val # None
    /\ Len(vin) = 2
    /\ Len(vout) = 1

ErrorValues ==
    {InvalidAmount} \cup {WitnessModeMismatch(e, a) : e \in Modes, a \in Modes}

\* C9: when a computation invoked by create_witnesses fails or mismatches,
\* create_witnesses returns an error and no AuthData; once create_witnesses
\* is called the builder is gone: no other call follows it.
C9_AllOrNothing ==
    /\ [](Returned("create_witnesses") =>
            /\ (\E n \in 1..Len(invoked) :
                    Fails(inCalls[n], mtx) \/ Mismatches(inCalls[n], mtx))
                => (IsErr(ret.val) /\ ret.val[2] \in ErrorValues /\ payloads = << >>)
            /\ signers = << >> /\ vin = << >> /\ vout = << >>)
    /\ [][pc # "building" =>
            /\ pc' # "building"
            /\ ret'.op = "create_witnesses"
            /\ UNCHANGED << signers, vin, vout, inCalls, outCalls, lastBuild >>]_vars
    /\ [][pc = "done" => FALSE]_vars

C9_Witness ==
    /\ Returned("create_witnesses")
    /\ IsErr(ret.val)
    /\ Len(invoked) = 3
    /\ ~Fails(inCalls[1], mtx) /\ ~Mismatches(inCalls[1], mtx)
    /\ ~Fails(inCalls[2], mtx) /\ ~Mismatches(inCalls[2], mtx)

\* C10: signers and inputs have the same length, and the i-th signer holds
\* the consumed output and the witness builder of the add_input call that
\* made the i-th input, while the builder is filled and while the zipped
\* iterator is drained.
C10_SignersAligned ==
    /\ Len(signers) = Len(vin)
    /\ Len(zip.signers) = Len(zip.vin)
    /\ pc = "building" =>
        /\ Len(vin) = Len(inCalls)
        /\ \A i \in 1..Len(inCalls) :
            /\ signers[i].prevout = inCalls[i].prevout
            /\ signers[i].builder = inCalls[i].witness_builder
            /\ vin[i].prevout = inCalls[i].outpoint
            /\ vin[i].witness.mode = inCalls[i].mode
    /\ pc = "resolving" =>
        LET d == Len(inCalls) - Len(zip.vin)
        IN /\ d = Len(invoked)
           /\ \A i \in 1..Len(zip.vin) :
                /\ zip.signers[i].prevout = inCalls[d + i].prevout
                /\ zip.signers[i].builder = inCalls[d + i].witness_builder
                /\ zip.vin[i].prevout = inCalls[d + i].outpoint
                /\ zip.vin[i].witness.mode = inCalls[d + i].mode

C10_Witness ==
    /\ pc = "building"
    /\ Len(signers) = 3
    /\ signers[1] # signers[2]
    /\ vin[1] # vin[2]
    /\ ret.op = "add_output"
    /\ IsErr(ret.val)

\* C11: the deferred computations are invoked one after the other in the
\* order their inputs were added: the n-th invocation is that of the n-th
\* input, every input before it resolved to its declared mode, and its
\* AuthData was collected before the next invocation.
C11_InvokedInOrder ==
    /\ pc = "building" => invoked = << >>
    /\ pc = "resolving" => Len(payloads) = Len(invoked)
    /\ \A n \in 1..Len(invoked) :
        /\ n <= Len(inCalls)
        /\ invoked[n] = inCalls[n].witness_builder
        /\ \A m \in 1..(n - 1) : ~Fails(inCalls[m], mtx) /\ ~Mismatches(inCalls[m], mtx)

C11_Witness ==
    /\ Len(invoked) = 3
    /\ invoked[1] # invoked[2]
    /\ invoked[2] # invoked[3]

\* C12 (as amended): no deferred computation is invoked before
\* create_witnesses, each is invoked at most once and then leaves the
\* iterator, and when create_witnesses returns exactly the computations up
\* to the first failing or mismatching input were invoked: all of them on
\* success, the later ones never.
C12_InvokedAtMostOnce ==
    /\ pc = "building" => invoked = << >>
    /\ Len(invoked) <= Len(inCalls)
    /\ \A n \in 1..Len(invoked) : invoked[n] = inCalls[n].witness_builder
    /\ pc = "resolving" => Len(zip.signers) = Len(inCalls) - Len(invoked)
    /\ Returned("create_witnesses") =>
        /\ zip = NoZip
        /\ Len(invoked) = IF FirstBad(mtx) = 0 THEN Len(inCalls) ELSE FirstBad(mtx)

C12_Witness ==
    /\ Returned("create_witnesses")
    /\ Len(inCalls) = 3
    /\ FirstBad(mtx) = 1
    /\ Len(invoked) = 1

\* C12 (as claimed): every deferred computation registered by add_input is
\* invoked exactly once in the lifetime of the builder, and only during
\* create_witnesses.
C12_InvokedExactlyOnce ==
    /\ pc = "building" => invoked = << >>
    /\ Len(invoked) <= Len(inCalls)
    /\ \A n \in 1..Len(invoked) : invoked[n] = inCalls[n].witness_builder
    /\ Returned("create_witnesses") => Len(invoked) = Len(inCalls)

\* C13 (as amended): every entry of the output sequence has a non-negative
\* value; the consumed previous outputs kept with the signers are stored as
\* passed, of either sign.
C13_OutputsNonNegative ==
    /\ \A j \in 1..Len(vout) : ~IsNegative(vout[j].value)
    /\ \A j \in 1..Len(outCalls) : ~IsNegative(outCalls[j].value)
    /\ pc = "building" =>
        \A i \in 1..Len(signers) : signers[i].prevout.value = inCalls[i].prevout.value

C13_Witness ==
    /\ pc = "building"
    /\ Len(vout) = 2
    /\ Len(signers) = 1
    /\ IsNegative(signers[1].prevout.value)
    /\ ret.op = "add_output"
    /\ IsErr(ret.val)

\* C13 (as claimed): every TzeOut the builder holds has a non-negative
\* value, the entries of the output sequence and the consumed previous
\* outputs kept with the signers alike.
C13_AllNonNegative ==
    /\ \A j \in 1..Len(vout) : ~IsNegative(vout[j].value)
    /\ \A i \in 1..Len(signers) : ~IsNegative(signers[i].prevout.value)

\* C14: add_input never fails and validates nothing: whatever its arguments,
\* it can be called on an owned builder, appends one input and one signer
\* made of its arguments, keeps the earlier inputs, signers and outputs, and
\* invokes no witness builder.
C14_AddInputAppends ==
    /\ []((Owned /\ Room) => \A a \in InputArgs : ENABLED AddInput(a))
    /\ [][ret'.op = "add_input" =>
            /\ ret'.val = Unit
            /\ Len(vin') = Len(vin) + 1
            /\ SubSeq(vin', 1, Len(vin)) = vin
            /\ vin'[Len(vin')].prevout = ret'.arg.outpoint
            /\ vin'[Len(vin')].witness.extension_id = ret'.arg.extension_id
            /\ vin'[Len(vin')].witness.mode = ret'.arg.mode
            /\ signers' = Append(signers, [prevout |-> ret'.arg.prevout,
                                           builder |-> ret'.arg.witness_builder])
            /\ UNCHANGED << vout, pc, zip, payloads, mtx, outCalls, invoked >>]_vars

C14_Witness ==
    /\ ret.op = "add_input"
    /\ ret.arg.witness_builder.res = "Err"
    /\ Len(vin) = 2
    /\ Len(signers) = 2
    /\ Len(vout) = 1
    /\ invoked = << >>

\* C15 (as amended): create_witnesses checks no value: it succeeds exactly
\* when no computation fails or mismatches, whatever the balance and the
\* sign of the consumed values; the only value check of the builder is that
\* of add_output, so the outputs are non-negative.
C15_SuccessIgnoresBalance ==
    Returned("create_witnesses") =>
        /\ IsOk(ret.val) <=> FirstBad(mtx) = 0
        /\ \A j \in 1..Len(outCalls) : ~IsNegative(outCalls[j].value)

C15_Witness ==
    /\ Returned("create_witnesses")
    /\ IsOk(ret.val)
    /\ Len(inCalls) = 2
    /\ IsNegative(inCalls[1].prevout.value)
    /\ ValueBalanceOf(inCalls, outCalls) # Some(0)

\* C15 (as claimed): create_witnesses succeeds only on a builder whose value
\* balance is present and zero and which holds no negative value.
C15_SuccessImpliesBalanced ==
    (Returned("create_witnesses") /\ IsOk(ret.val)) =>
        /\ ValueBalanceOf(inCalls, outCalls) = Some(0)
        /\ \A i \in 1..Len(inCalls) : ~IsNegative(inCalls[i].prevout.value)
        /\ \A j \in 1..Len(outCalls) : ~IsNegative(outCalls[j].value)

\* C16: create_witnesses on a builder with outputs and no input returns a
\* present, empty sequence and invokes nothing; a returned sequence is
\* present exactly when an input or an output was added, and has one entry
\* per input.
C16_PresentWhenNonEmpty ==
    Returned("create_witnesses") =>
        /\ (inCalls = << >> /\ outCalls # << >>) =>
                (ret.val = Ok(Some(<< >>)) /\ invoked = << >>)
        /\ IsOk(ret.val) =>
            /\ (ret.val[2] # None) <=> (inCalls # << >> \/ outCalls # << >>)
            /\ ret.val[2] # None => Len(ret.val[2][1]) = Len(inCalls)

C16_Witness ==
    /\ Returned("create_witnesses")
    /\ inCalls = << >>
    /\ Len(outCalls) = 2
    /\ ret.val = Ok(Some(<< >>))

\* C17: value_balance() on a builder without inputs and outputs is a present
\* zero, and on a builder with outputs only it is the present negation of
\* the sum of the outputs when that sum is an Amount.
C17_BalanceWithoutInputs ==
    (Returned("value_balance") /\ inCalls = << >>) =>
        /\ outCalls = << >> => ret.val = Some(0)
        /\ IntSum(OutputValues) \in Amounts => ret.val = Some(0 - IntSum(OutputValues))

C17_Witness ==
    /\ Returned("value_balance")
    /\ inCalls = << >>
    /\ Len(outCalls) = 2
    /\ ret.val = Some(0 - MaxMoney)

\* C18: the builder depends on the add_input calls in their order and on the
\* accepted add_output calls in their order, and on nothing else: however
\* the two kinds of calls were interleaved, the inputs, signers and outputs
\* are the same.
C18_OrderIndependent ==
    pc = "building" =>
        /\ vin = [i \in 1..Len(inCalls) |->
                    [prevout |-> inCalls[i].outpoint,
                     witness |-> [extension_id |-> inCalls[i].extension_id,
                                  mode |-> inCalls[i].mode]]]
        /\ signers = [i \in 1..Len(inCalls) |->
                        [prevout |-> inCalls[i].prevout,
                         builder |-> inCalls[i].witness_builder]]
        /\ vout = [j \in 1..Len(outCalls) |->
                     [value |-> outCalls[j].value,
                      precondition |-> [extension_id |-> outCalls[j].extension_id,
                                        mode |-> outCalls[j].guarded_by.mode,
                                        payload |-> outCalls[j].guarded_by.bytes]]]

C18_Witness ==
    /\ pc = "building"
    /\ ret.op = "add_input"
    /\ Len(inCalls) = 2
    /\ inCalls[1] # inCalls[2]
    /\ Len(outCalls) = 1

====
